---- MODULE Spec2Model ----
(***************************************************************************)
(* Model of the interview reviewer backend: the local Whisper variant      *)
(* (backend/main.py) and the remote AssemblyAI variant                     *)
(* (backend/main_assembly_ai.py).  One request is a small state machine    *)
(* that moves from one blocking call to the next; the providers' answers   *)
(* are chosen nondeterministically.                                        *)
(*                                                                         *)
(* Text is a sequence of one-character strings, so that prefix tests,      *)
(* joins and coercions are computed and not assumed.                       *)
(***************************************************************************)
EXTENDS Integers, Sequences, FiniteSets, TLC

\* ------------------------------------------------------------------ bounds
\* Requests the server process is given (Spec issues only the first).
NumRequests == 2
\* Audio lengths range over 0 .. MaxChunks upload chunks, each +/- one byte.
MaxChunks == 5
\* A status query takes 0 .. MaxQueryLatency seconds to answer.
MaxQueryLatency == 1

\* ------------------------------------------------------- program constants
\* chunk_size = 5_242_880 in upload_to_assemblyai
ChunkSize == 5242880
\* 25 * 1024 * 1024 in the remote analyze_interview
MaxAudioSize == 25 * 1024 * 1024
\* timeout: int = 300 in poll_transcription
PollTimeout == 300
\* time.sleep(3) in poll_transcription
PollInterval == 3

Reqs == 1 .. NumRequests

\* -------------------------------------------------------------------- text
NL == "\n"
\* "audio/", the prefix both variants test the content type against
AudioPrefix == <<"a", "u", "d", "i", "o", "/">>

\* str.startswith
StartsWith(s, p) == Len(s) >= Len(p) /\ SubSeq(s, 1, Len(p)) = p

\* sep.join(parts)
RECURSIVE Join(_, _)
Join(sep, parts) ==
    IF Len(parts) = 0 THEN <<>>
    ELSE IF Len(parts) = 1 THEN parts[1]
    ELSE parts[1] \o sep \o Join(sep, Tail(parts))

\* ------------------------------------------------------------- JSON values
\* A parsed JSON value: text, a list of values, a number or null.
JStr(s) == [t |-> "str", s |-> s, items |-> <<>>, n |-> 0]
JNum(n) == [t |-> "num", s |-> <<>>, items |-> <<>>, n |-> n]
JNull == [t |-> "null", s |-> <<>>, items |-> <<>>, n |-> 0]
JList(items) == [t |-> "list", s |-> <<>>, items |-> items, n |-> 0]

\* The result of a call that may raise.
Ok(v) == [ok |-> TRUE, val |-> v]
Raised == [ok |-> FALSE, val |-> <<>>]

DigitChar == <<"0", "1", "2", "3", "4", "5", "6", "7", "8", "9">>

\* str(n) for a natural number
RECURSIVE Digits(_)
Digits(n) ==
    IF n < 10 THEN <<DigitChar[n + 1]>>
    ELSE Digits(n \div 10) \o <<DigitChar[(n % 10) + 1]>>

\* str(value) for text, a number or None
PyStr(v) ==
    CASE v.t = "str" -> v.s
      [] v.t = "num" -> Digits(v.n)
      [] OTHER -> <<"N", "o", "n", "e">>

\* dict.get(key, default)
Get(d, key, default) == IF key \in DOMAIN d THEN d[key] ELSE default

\* What `for item in lst` walks over: a list's elements, a string's characters.
Elements(v) ==
    IF v.t = "list" THEN v.items
    ELSE [i \in 1 .. Len(v.s) |-> JStr(<<v.s[i]>>)]

\* main.py list_to_str: "\n".join([str(item) for item in lst]); a value that
\* cannot be iterated (a number, None) raises TypeError.
list_to_str(lst) ==
    IF lst.t \in {"list", "str"}
    THEN Ok(Join(<<NL>>, [i \in 1 .. Len(Elements(lst)) |-> PyStr(Elements(lst)[i])]))
    ELSE Raised

\* main_assembly_ai.py normalize: a list becomes "\n- " + "\n- ".join(value),
\* and str.join raises TypeError on an element that is not text; anything
\* else becomes str(value).
normalize(value) ==
    IF value.t = "list"
    THEN IF \A i \in 1 .. Len(value.items) : value.items[i].t = "str"
         THEN Ok(<<NL, "-", " ">>
                 \o Join(<<NL, "-", " ">>, [i \in 1 .. Len(value.items) |-> value.items[i].s]))
         ELSE Raised
    ELSE Ok(PyStr(value))

FieldKeys == {"strengths", "weaknesses", "recommendations"}

\* ------------------------------------------------------------------ inputs
\* Declared content types of the uploaded part.
ContentTypes ==
    { <<"a", "u", "d", "i", "o", "/", "w", "a", "v">>,
      <<"a", "u", "d", "i", "o", "/">>,
      <<"a", "u", "d", "i", "o">>,
      <<"t", "e", "x", "t", "/", "p", "l", "a", "i", "n">>,
      <<"v", "i", "d", "e", "o", "/", "a", "u", "d", "i", "o", "/">> }

\* Lengths of the uploaded audio, in bytes: around every chunk boundary up to
\* MaxChunks chunks (25 MiB is five chunks).
AudioLens ==
    { k * ChunkSize + d : k \in 0 .. MaxChunks, d \in {-1, 0, 1} } \ {-1}

\* Texts a transcription provider returns.
Transcripts ==
    { <<>>, <<" ", NL>>, <<"h", "i">>, <<" ", "o", "k", " ">> }

\* Error messages the remote service reports for a failed job.
ProviderErrors == {"bad audio"}

\* Shapes one field of the model's JSON answer takes; JMissing stands for a
\* key the answer does not have.
JMissing == [t |-> "missing", s |-> <<>>, items |-> <<>>, n |-> 0]
FieldValues ==
    { JMissing,
      JList(<<>>),
      JList(<<JStr(<<"a">>), JStr(<<"b">>)>>),
      JList(<<JStr(<<"a">>), JNum(7)>>),
      JStr(<<"x">>),
      JStr(<<"o", "k">>),
      JNum(12),
      JNull }

\* json.loads of the model's answer: an object with some of the three keys.
AnalysisReplies ==
    { [k \in {j \in FieldKeys : f[j] # JMissing} |-> f[k]] : f \in [FieldKeys -> FieldValues] }

\* Statuses a status query reports ("other" stands for an absent or unknown one).
JobStatuses == {"queued", "processing", "completed", "error", "other"}

\* response.json() of a status query: a completed job carries its text, a
\* failed one its error.
NoPollResponse == [status |-> "", text |-> <<>>, error |-> ""]
PollResponses ==
    { [status |-> "completed", text |-> t, error |-> ""] : t \in Transcripts }
    \cup { [status |-> "error", text |-> <<>>, error |-> e] : e \in ProviderErrors }
    \cup { [status |-> st, text |-> <<>>, error |-> ""] : st \in {"queued", "processing", "other"} }

Endpoints == {"local_analyze", "remote_analyze", "remote_transcribe"}

\* ------------------------------------------------------------------- state
VARIABLES
    req,    \* req[r]: the request r, its handler's locals and what it has sent
    files,  \* files[n]: the request that created temp file n, 0 when n does not exist
    loop    \* the request whose handler occupies the event loop, 0 when it is free

vars == <<req, files, loop>>

FileNames == 1 .. NumRequests

EmptyBody == [k \in {} |-> <<>>]
NoResp == [status |-> 0, detail |-> "", cause |-> "", body |-> EmptyBody]
Error(status, detail, cause) ==
    [status |-> status, detail |-> detail, cause |-> cause, body |-> EmptyBody]
Success(body) == [status |-> 200, detail |-> "", cause |-> "", body |-> body]

NewRequest(ep, ct, len) ==
    [ endpoint |-> ep, content_type |-> ct, audio_len |-> len,
      pc |-> "new",
      temp_file |-> 0,          \* main.py temp_file, 0 while unbound
      uploads |-> <<>>,         \* the chunks POSTed to the upload endpoint, <<from, to>>
      upload_answers |-> <<>>,  \* the status codes the upload endpoint answered
      audio_url |-> <<0, 0>>,   \* the upload the returned upload_url names
      submits |-> 0,            \* POSTs to the transcript endpoint
      polled |-> FALSE,         \* a status query has been sent
      last_response |-> NoPollResponse,  \* the last answered status query
      elapsed |-> 0,            \* time.time() - start_time
      transcribe_calls |-> 0,   \* calls of model.transcribe
      analysis_calls |-> 0,     \* calls of the Groq chat completion
      transcript |-> <<>>,      \* <<t>> once transcript is bound to the text t
      analysis_reply |-> <<>>,  \* <<d>> once json.loads has returned the object d
      resp |-> NoResp ]

Absent == [NewRequest("local_analyze", <<>>, 0) EXCEPT !.pc = "absent"]

\* The server runs one of the two applications.
IsLocal(ep) == ep = "local_analyze"

\* One request arrives; the other slots stay empty.
Init ==
    /\ \E ep \in Endpoints, ct \in ContentTypes, len \in AudioLens :
          req = [r \in Reqs |-> IF r = 1 THEN NewRequest(ep, ct, len) ELSE Absent]
    /\ files = [n \in FileNames |-> 0]
    /\ loop = 0

\* ------------------------------------------------------------ shared steps
\* A looser test: the prefix without its slash.
IsAudioTypeNoSlash(ct) == StartsWith(ct, <<"a", "u", "d", "i", "o">>)

\* file.content_type.startswith("audio/")
IsAudioType(ct) == StartsWith(ct, AudioPrefix)

\* The handler of r returns or raises and the response goes out.  What the
\* request has sent and bound stays on record.
Finish(r, resp) ==
    [req[r] EXCEPT !.pc = "done", !.resp = resp, !.elapsed = 0]

\* ------------------------------------------------- main.py analyze_interview
\* A handler without the removal.
FinallyKeepsFile(fs, tf) == fs

\* finally: if 'temp_file' in locals() and os.path.exists(temp_file):
\*     os.remove(temp_file)
Finally(fs, tf) ==
    IF tf # 0 /\ fs[tf] # 0 THEN [fs EXCEPT ![tf] = 0] ELSE fs

\* The three list_to_str calls and the returned dict; an exception in any of
\* them reaches `except Exception` and becomes a 500.
LocalResult(transcript, data) ==
    LET s == list_to_str(Get(data, "strengths", JList(<<>>)))
        w == list_to_str(Get(data, "weaknesses", JList(<<>>)))
        c == list_to_str(Get(data, "recommendations", JList(<<>>)))
    IN  IF s.ok /\ w.ok /\ c.ok
        THEN Success([transcript |-> transcript, strengths |-> s.val,
                      weaknesses |-> w.val, recommendations |-> c.val])
        ELSE Error(500, "Processing failed: ", "normalize")

\* A handler that writes to a name it does not know to be unused.
L_BeginAnyName(r) ==
    /\ req[r].pc = "new" /\ IsLocal(req[r].endpoint) /\ loop = 0
    /\ \E n \in FileNames :
         /\ files' = [files EXCEPT ![n] = r]
         /\ req' = [req EXCEPT ![r].temp_file = n, ![r].pc = "l_read"]
    /\ UNCHANGED loop

\* The request is taken up: the type check, then the temp file is created and
\* the handler awaits the upload's bytes.
L_Begin(r) ==
    /\ req[r].pc = "new" /\ IsLocal(req[r].endpoint) /\ loop = 0
    /\ IF ~IsAudioType(req[r].content_type)
       THEN /\ req' = [req EXCEPT ![r] =
                         Finish(r, Error(400, "Invalid file type. Please upload audio.", ""))]
            /\ UNCHANGED files
       ELSE \/ \* NamedTemporaryFile raises: temp_file is never bound
               /\ req' = [req EXCEPT ![r] =
                            Finish(r, Error(500, "Processing failed: ", "tempfile"))]
               /\ files' = Finally(files, req[r].temp_file)
            \/ \E n \in FileNames :
                 /\ files[n] = 0
                 /\ files' = [files EXCEPT ![n] = r]
                 /\ req' = [req EXCEPT ![r].temp_file = n, ![r].pc = "l_read"]
    /\ UNCHANGED loop

\* A handler that hands model.transcribe to a worker thread and leaves the
\* event loop free meanwhile.
L_ReadDoneOffloaded(r) ==
    /\ req[r].pc = "l_read" /\ loop = 0
    /\ req' = [req EXCEPT ![r].pc = "l_transcribing", ![r].transcribe_calls = @ + 1]
    /\ UNCHANGED <<files, loop>>

\* await file.read() resumes; tmp.write, then model.transcribe is called and
\* the handler stays on the event loop inside it.
L_ReadDone(r) ==
    /\ req[r].pc = "l_read" /\ loop = 0
    /\ \/ \* the read or the write raises
          /\ req' = [req EXCEPT ![r] = Finish(r, Error(500, "Processing failed: ", "write"))]
          /\ files' = Finally(files, req[r].temp_file)
          /\ UNCHANGED loop
       \/ /\ req' = [req EXCEPT ![r].pc = "l_transcribing",
                                ![r].transcribe_calls = @ + 1]
          /\ loop' = r
          /\ UNCHANGED files

\* model.transcribe returns or raises; on a result analyze_with_groq is called.
L_TranscribeDone(r) ==
    /\ req[r].pc = "l_transcribing"
    /\ \/ /\ req' = [req EXCEPT ![r] =
                       Finish(r, Error(500, "Processing failed: ", "transcribe"))]
          /\ files' = Finally(files, req[r].temp_file)
          /\ loop' = 0
       \/ \E t \in Transcripts :
            /\ req' = [req EXCEPT ![r].transcript = <<t>>, ![r].pc = "l_analyzing",
                                  ![r].analysis_calls = @ + 1]
            /\ UNCHANGED <<files, loop>>

\* analyze_with_groq returns the parsed answer or raises HTTPException(500),
\* which the handler's `except Exception` wraps again; then the response is
\* built and the finally block runs.
L_AnalyzeDone(r) ==
    /\ req[r].pc = "l_analyzing"
    /\ \/ req' = [req EXCEPT ![r] = Finish(r, Error(500, "Processing failed: ", "analysis"))]
       \/ \E d \in AnalysisReplies :
            req' = [req EXCEPT ![r] =
                      [Finish(r, LocalResult(req[r].transcript[1], d))
                         EXCEPT !.analysis_reply = <<d>>]]
    /\ files' = Finally(files, req[r].temp_file)
    /\ loop' = 0

\* -------------------------------------------------- main_assembly_ai.py
Min(a, b) == IF a < b THEN a ELSE b

\* Chunks cut without regard to the end of the data.
ChunksPastEnd(len) ==
    [k \in 1 .. ((len + ChunkSize - 1) \div ChunkSize) |->
        <<(k - 1) * ChunkSize, k * ChunkSize>>]

\* read_chunks: data[i:i+size] for i in range(0, len(data), size), each chunk
\* written as the byte range <<from, to>> it covers.
Chunks(len) ==
    [k \in 1 .. ((len + ChunkSize - 1) \div ChunkSize) |->
        <<(k - 1) * ChunkSize, Min(k * ChunkSize, len)>>]

\* if len(audio_data) > 25 * 1024 * 1024
TooLarge(len) == len > MaxAudioSize

\* Answers of the upload and of the transcript endpoint.
HttpStatuses == {200, 202, 500}

\* if response.status_code != 200 (upload_to_assemblyai)
UploadOk(status) == status = 200

\* if response.status_code != 200 and response.status_code != 202
SubmitOk(status) == status = 200 \/ status = 202

\* The loop condition off by one.
LoopCondInclusive(elapsed) == elapsed <= PollTimeout

\* while time.time() - start_time < timeout
LoopCond(elapsed) == elapsed < PollTimeout

\* A poll loop that takes a failed job for a finished one.
PollBranchErrorReturns(status) ==
    IF status \in {"completed", "error"} THEN "return" ELSE "sleep"

\* A poll loop that does not look for the error status.
PollBranchNoError(status) ==
    IF status = "completed" THEN "return" ELSE "sleep"

\* What poll_transcription does with an answered status query.
PollBranch(status) ==
    CASE status = "completed" -> "return"
      [] status = "error" -> "raise"
      [] OTHER -> "sleep"

\* analyze_transcript_with_groq after json.loads: the three normalize calls;
\* an exception in any of them is caught and becomes "AI analysis failed.".
\* The endpoint answers AnalysisResponse(**analysis).
RemoteResult(parsed) ==
    LET s == normalize(Get(parsed, "strengths", JStr(<<>>)))
        w == normalize(Get(parsed, "weaknesses", JStr(<<>>)))
        c == normalize(Get(parsed, "recommendations", JStr(<<>>)))
    IN  IF s.ok /\ w.ok /\ c.ok
        THEN Success([strengths |-> s.val, weaknesses |-> w.val,
                      recommendations |-> c.val])
        ELSE Error(500, "AI analysis failed.", "")

\* Both endpoints: the type check, then the handler awaits the upload's bytes.
R_Begin(r) ==
    /\ req[r].pc = "new" /\ ~IsLocal(req[r].endpoint) /\ loop = 0
    /\ req' = [req EXCEPT ![r] =
                 IF ~IsAudioType(req[r].content_type)
                 THEN Finish(r, Error(400, "Invalid file type. Please upload an audio file.", ""))
                 ELSE [req[r] EXCEPT !.pc = "r_read"]]
    /\ UNCHANGED <<files, loop>>

\* await file.read() resumes; analyze_interview checks the size; then
\* transcribe_audio starts the upload with the first chunk.  With no chunk
\* the loop body never runs and response.json() is called on None, an
\* exception nothing catches.
R_ReadDone(r) ==
    /\ req[r].pc = "r_read" /\ loop = 0
    /\ UNCHANGED files
    /\ \/ \* the read raises
          /\ req' = [req EXCEPT ![r] = Finish(r, Error(500, "Internal Server Error", "read"))]
          /\ UNCHANGED loop
       \/ IF req[r].endpoint = "remote_analyze" /\ TooLarge(req[r].audio_len)
          THEN /\ req' = [req EXCEPT ![r] =
                            Finish(r, Error(400, "File too large. Max size is 25 MB.", ""))]
               /\ UNCHANGED loop
          ELSE IF Len(Chunks(req[r].audio_len)) = 0
          THEN /\ req' = [req EXCEPT ![r] =
                            Finish(r, Error(500, "Internal Server Error", "upload"))]
               /\ UNCHANGED loop
          ELSE /\ req' = [req EXCEPT ![r].pc = "r_uploading",
                                     ![r].uploads = <<Chunks(req[r].audio_len)[1]>>]
               /\ loop' = r

\* An upload that sends a refused chunk once more.
R_UploadDoneRetries(r) ==
    /\ req[r].pc = "r_uploading"
    /\ Len(req[r].upload_answers) < 2
    /\ \E status \in HttpStatuses :
         /\ ~UploadOk(status)
         /\ req' = [req EXCEPT ![r].upload_answers = Append(@, status),
                               ![r].uploads = Append(@, @[Len(@)])]
    /\ UNCHANGED <<files, loop>>

\* The upload endpoint answers a chunk: a failure aborts, otherwise the next
\* chunk is sent, and after the last one the job is submitted with the
\* upload_url of that last answer.
R_UploadDone(r) ==
    /\ req[r].pc = "r_uploading"
    /\ UNCHANGED files
    /\ \E status \in HttpStatuses :
         IF ~UploadOk(status)
         THEN /\ req' = [req EXCEPT ![r] =
                           [Finish(r, Error(500, "Failed to upload audio to AssemblyAI.", ""))
                              EXCEPT !.upload_answers = Append(@, status)]]
              /\ loop' = 0
         ELSE /\ UNCHANGED loop
              /\ IF Len(req[r].uploads) < Len(Chunks(req[r].audio_len))
                 THEN req' = [req EXCEPT ![r].upload_answers = Append(@, status),
                                         ![r].uploads =
                                            Append(@, Chunks(req[r].audio_len)[Len(@) + 1])]
                 ELSE req' = [req EXCEPT ![r].upload_answers = Append(@, status),
                                         ![r].audio_url = req[r].uploads[Len(req[r].uploads)],
                                         ![r].submits = @ + 1,
                                         ![r].pc = "r_submitting"]

\* The transcript endpoint answers the submission; on success polling starts.
R_SubmitDone(r) ==
    /\ req[r].pc = "r_submitting"
    /\ UNCHANGED files
    /\ \E status \in HttpStatuses :
         IF ~SubmitOk(status)
         THEN /\ req' = [req EXCEPT ![r] =
                           Finish(r, Error(500, "Failed to start transcription.", ""))]
              /\ loop' = 0
         ELSE IF LoopCond(0)
         THEN /\ req' = [req EXCEPT ![r].elapsed = 0, ![r].polled = TRUE,
                                    ![r].pc = "r_polling"]
              /\ UNCHANGED loop
         ELSE /\ req' = [req EXCEPT ![r] =
                           Finish(r, Error(500, "Transcription timed out.", ""))]
              /\ loop' = 0

\* A status query is answered after some time.  completed: result["text"] is
\* returned (and analyze_interview calls the analysis); error: the job's
\* error is raised; anything else: time.sleep(3).
R_PollDone(r) ==
    /\ req[r].pc = "r_polling"
    /\ UNCHANGED files
    /\ \E lat \in 0 .. MaxQueryLatency, result \in PollResponses :
         CASE PollBranch(result.status) = "return" ->
                IF req[r].endpoint = "remote_analyze"
                THEN /\ req' = [req EXCEPT ![r].last_response = result,
                                          ![r].elapsed = 0,
                                          ![r].transcript = <<result.text>>,
                                          ![r].analysis_calls = @ + 1,
                                          ![r].pc = "r_analyzing"]
                     /\ UNCHANGED loop
                ELSE /\ req' = [req EXCEPT ![r] =
                                  [Finish(r, Success([transcript |-> result.text]))
                                     EXCEPT !.last_response = result,
                                            !.transcript = <<result.text>>]]
                     /\ loop' = 0
           [] PollBranch(result.status) = "raise" ->
                /\ req' = [req EXCEPT ![r] =
                             [Finish(r, Error(500, "Transcription failed: ", result.error))
                                EXCEPT !.last_response = result]]
                /\ loop' = 0
           [] OTHER ->
                /\ req' = [req EXCEPT ![r].last_response = result,
                                      ![r].elapsed = @ + lat,
                                      ![r].pc = "r_sleeping"]
                /\ UNCHANGED loop

\* time.sleep(3) returns and the loop condition is tested again.
R_SleepDone(r) ==
    /\ req[r].pc = "r_sleeping"
    /\ UNCHANGED files
    /\ IF LoopCond(req[r].elapsed + PollInterval)
       THEN /\ req' = [req EXCEPT ![r].elapsed = @ + PollInterval, ![r].pc = "r_polling"]
            /\ UNCHANGED loop
       ELSE /\ req' = [req EXCEPT ![r] =
                         Finish(r, Error(500, "Transcription timed out.", ""))]
            /\ loop' = 0

\* analyze_transcript_with_groq returns the normalized fields or raises.
R_AnalyzeDone(r) ==
    /\ req[r].pc = "r_analyzing"
    /\ UNCHANGED files
    /\ loop' = 0
    /\ \/ req' = [req EXCEPT ![r] = Finish(r, Error(500, "AI analysis failed.", ""))]
       \/ \E d \in AnalysisReplies :
            req' = [req EXCEPT ![r] =
                      [Finish(r, RemoteResult(d)) EXCEPT !.analysis_reply = <<d>>]]

\* ------------------------------------------------------------ specification
Step(r) ==
    \/ L_Begin(r)
    \/ L_ReadDone(r)
    \/ L_TranscribeDone(r)
    \/ L_AnalyzeDone(r)
    \/ R_Begin(r)
    \/ R_ReadDone(r)
    \/ R_UploadDone(r)
    \/ R_SubmitDone(r)
    \/ R_PollDone(r)
    \/ R_SleepDone(r)
    \/ R_AnalyzeDone(r)

Next == \E r \in Reqs : Step(r)

Spec == Init /\ [][Next]_vars

\* The poll loop on its own.  It starts where transcribe_audio has uploaded
\* the audio and has just submitted the job, and it ends where
\* poll_transcription returns or raises.  Every status query is answered and
\* every sleep ends.
Submitted(ep, len) ==
    [NewRequest(ep, <<"a", "u", "d", "i", "o", "/", "w", "a", "v">>, len)
        EXCEPT !.pc = "r_submitting",
               !.uploads = Chunks(len),
               !.upload_answers = [i \in 1 .. Len(Chunks(len)) |-> 200],
               !.audio_url = Chunks(len)[Len(Chunks(len))],
               !.submits = 1]

PollInit ==
    /\ \E ep \in {"remote_analyze", "remote_transcribe"}, len \in {1, ChunkSize + 1} :
          req = [r \in Reqs |-> IF r = 1 THEN Submitted(ep, len) ELSE Absent]
    /\ files = [n \in FileNames |-> 0]
    /\ loop = 1

PollNext ==
    \E r \in Reqs :
        \/ R_SubmitDone(r)
        \/ R_PollDone(r)
        \/ R_SleepDone(r)

PollSpec == PollInit /\ [][PollNext]_vars /\ WF_vars(PollNext)

\* Violated under Spec: the poll loop starts in states the pipeline reaches.
PollInitUnreached == ~PollInit

\* Several requests reach one server process at once.  The process runs one
\* of the two applications; the providers answer with few distinct texts and
\* the transcription job ends within the first polls, which keeps the
\* interleavings of the handlers in view.
ConcPollWindow == 4

ConcTranscripts == { <<"h", "i">> }
ConcReplies ==
    { [k \in FieldKeys |-> JList(<<JStr(<<"a">>), JStr(<<"b">>)>>)],
      [k \in {"strengths"} |-> JNum(12)] }

ConcInit ==
    /\ \E local \in BOOLEAN :
         req \in [Reqs ->
                    { NewRequest(ep, ct, len) :
                        ep \in {e \in Endpoints : IsLocal(e) = local},
                        ct \in { <<"a", "u", "d", "i", "o", "/", "w", "a", "v">> },
                        len \in {1} }]
    /\ files = [n \in FileNames |-> 0]
    /\ loop = 0

ConcAnswers(r) ==
    /\ req[r].transcript \in {<<>>} \cup { <<t>> : t \in ConcTranscripts }
    /\ req[r].analysis_reply \in {<<>>} \cup { <<d>> : d \in ConcReplies }
    /\ req[r].elapsed <= ConcPollWindow

ConcNext ==
    \E r \in Reqs :
        \/ L_Begin(r)
        \/ L_ReadDone(r)
        \/ L_TranscribeDone(r) /\ ConcAnswers(r)'
        \/ L_AnalyzeDone(r) /\ ConcAnswers(r)'
        \/ R_Begin(r)
        \/ R_ReadDone(r)
        \/ R_UploadDone(r)
        \/ R_SubmitDone(r)
        \/ R_PollDone(r) /\ ConcAnswers(r)'
        \/ R_SleepDone(r) /\ ConcAnswers(r)'
        \/ R_AnalyzeDone(r) /\ ConcAnswers(r)'

ConcSpec == ConcInit /\ [][ConcNext]_vars

\* ------------------------------------------------------------------ claims
Done(r) == req[r].pc = "done"
DeclaresAudio(r) == StartsWith(req[r].content_type, AudioPrefix)
InPoll(r) == req[r].pc \in {"r_polling", "r_sleeping"}
Terminal(status) == status \in {"completed", "error"}
TimedOut(r) == Done(r) /\ req[r].resp = Error(500, "Transcription timed out.", "")

\* C1: in the local variant, once a request that passed the audio-type check
\* has ended, in whatever way, the temp file it created no longer exists.
C1_TempFileRemoved ==
    \A r \in Reqs :
        (IsLocal(req[r].endpoint) /\ DeclaresAudio(r) /\ Done(r))
            => \A n \in FileNames : files[n] # r

\* A local request that staged its upload has failed in the analysis and its
\* file is gone.
C1_Witness ==
    \E r \in Reqs :
        /\ IsLocal(req[r].endpoint) /\ Done(r)
        /\ req[r].temp_file # 0
        /\ req[r].resp = Error(500, "Processing failed: ", "analysis")
        /\ files[req[r].temp_file] = 0

\* C2: poll_transcription stays in its loop only on non-terminal statuses;
\* on completed it returns that answer's text, on error it raises a 500 with
\* the provider's error, and when it ends without a terminal status it
\* raises "Transcription timed out.".
C2_PollOutcome ==
    \A r \in Reqs :
        LET last == req[r].last_response IN
        /\ InPoll(r) => ~Terminal(last.status)
        /\ last.status = "completed" =>
              /\ req[r].pc \in {"r_analyzing", "done"}
              /\ req[r].transcript = <<last.text>>
              /\ (req[r].endpoint = "remote_transcribe" =>
                     req[r].resp = Success([transcript |-> last.text]))
        /\ last.status = "error" =>
              /\ Done(r)
              /\ req[r].resp = Error(500, "Transcription failed: ", last.error)
        /\ (Done(r) /\ req[r].polled /\ ~Terminal(last.status)) => TimedOut(r)
        /\ TimedOut(r) => ~Terminal(last.status)

\* A job that never left the non-terminal statuses has timed out.
C2_Witness ==
    \E r \in Reqs :
        TimedOut(r) /\ req[r].last_response.status \in {"queued", "processing"}

\* C3: polling ends for every sequence of answers, and no status query is
\* started once the elapsed time has reached the timeout.
C3_PollBounded ==
    \A r \in Reqs :
        /\ [](req[r].pc = "r_polling" => req[r].elapsed < PollTimeout)
        /\ (InPoll(r) ~> ~InPoll(r))

\* The last sleep that still leaves time for one more query has ended.
C3_Witness ==
    \E r \in Reqs :
        req[r].pc = "r_polling" /\ req[r].elapsed >= PollTimeout - PollInterval

\* str.strip(): the text without its leading and trailing whitespace.
Whitespace == {" ", NL}
RECURSIVE LStrip(_)
LStrip(s) == IF Len(s) > 0 /\ s[1] \in Whitespace THEN LStrip(Tail(s)) ELSE s
RECURSIVE RStrip(_)
RStrip(s) ==
    IF Len(s) > 0 /\ s[Len(s)] \in Whitespace THEN RStrip(SubSeq(s, 1, Len(s) - 1)) ELSE s
Strip(s) == RStrip(LStrip(s))

IsAnalyze(r) == req[r].endpoint \in {"local_analyze", "remote_analyze"}
\* transcript is bound to a text that is empty once trimmed
BlankTranscript(r) == req[r].transcript # <<>> /\ Strip(req[r].transcript[1]) = <<>>
\* r has called no provider and has staged nothing
NothingInvoked(r) ==
    /\ req[r].temp_file = 0
    /\ \A n \in FileNames : files[n] # r
    /\ req[r].transcribe_calls = 0
    /\ req[r].uploads = <<>>
    /\ req[r].submits = 0
    /\ ~req[r].polled
    /\ req[r].analysis_calls = 0

\* C4: in both variants of analyze_interview a transcript that is empty after
\* trimming is rejected with a 400 and the analysis provider is not called.
C4_EmptyTranscriptRejected ==
    \A r \in Reqs :
        (IsAnalyze(r) /\ BlankTranscript(r)) =>
            /\ req[r].analysis_calls = 0
            /\ req[r].pc \notin {"l_analyzing", "r_analyzing"}
            /\ Done(r) => req[r].resp.status = 400

\* C5: a successful answer of analyze_interview, local or remote, has exactly
\* the fields transcript, strengths, weaknesses, recommendations, its
\* transcript is the transcription provider's text, and both the
\* transcription and the analysis have succeeded before it.
C5_SuccessShape ==
    \A r \in Reqs :
        (IsAnalyze(r) /\ Done(r) /\ req[r].resp.status = 200) =>
            /\ req[r].transcript # <<>>
            /\ req[r].analysis_reply # <<>>
            /\ DOMAIN req[r].resp.body = {"transcript"} \cup FieldKeys
            /\ req[r].resp.body["transcript"] = req[r].transcript[1]

\* C6: a request whose declared type does not start with "audio/" is answered
\* 400 for its type, having staged nothing and called no provider.
C6_InvalidTypeRejectedFirst ==
    \A r \in Reqs :
        (req[r].pc # "absent" /\ ~DeclaresAudio(r)) =>
            /\ req[r].pc \in {"new", "done"}
            /\ NothingInvoked(r)
            /\ Done(r) =>
                  /\ req[r].resp.status = 400
                  /\ req[r].resp.detail \in
                        { "Invalid file type. Please upload audio.",
                          "Invalid file type. Please upload an audio file." }

\* text/plain sent to /transcribe/ has been rejected.
C6_Witness ==
    \E r \in Reqs :
        /\ req[r].endpoint = "remote_transcribe"
        /\ req[r].content_type = <<"t", "e", "x", "t", "/", "p", "l", "a", "i", "n">>
        /\ Done(r) /\ req[r].resp.status = 400

\* The normalization the specification describes: a sequence becomes its
\* elements as text joined by single newlines, text stays as it is, an absent
\* key becomes the empty text.
Described(d, key) ==
    IF key \notin DOMAIN d THEN <<>>
    ELSE IF d[key].t = "list"
    THEN Join(<<NL>>, [i \in 1 .. Len(d[key].items) |-> PyStr(d[key].items[i])])
    ELSE d[key].s
\* The shapes that description covers.
DescribedShape(d, key) == key \notin DOMAIN d \/ d[key].t \in {"list", "str"}

\* C7: in both variants each of the three fields of a successful answer is
\* the described normalization of the model's field, whenever that field is a
\* sequence, a text or absent.
C7_NormalizedAsDescribed ==
    \A r \in Reqs :
        (IsAnalyze(r) /\ Done(r) /\ req[r].resp.status = 200) =>
            \A key \in FieldKeys :
                DescribedShape(req[r].analysis_reply[1], key) =>
                    req[r].resp.body[key] = Described(req[r].analysis_reply[1], key)

\* C8: whatever the shapes of the three fields of the parsed answer, the
\* request is answered with the three keys, each a text.
C8_NormalizationTotal ==
    \A r \in Reqs :
        (Done(r) /\ req[r].analysis_reply # <<>>) =>
            /\ req[r].resp.status = 200
            /\ FieldKeys \subseteq DOMAIN req[r].resp.body

\* C9: on both remote endpoints audio over 25 MiB is rejected and none of it
\* is sent to the upload endpoint.
C9_OversizeNeverUploaded ==
    \A r \in Reqs :
        (~IsLocal(req[r].endpoint) /\ req[r].audio_len > 25 * 1024 * 1024) =>
            /\ req[r].uploads = <<>>
            /\ req[r].pc \notin {"r_uploading", "r_submitting", "r_polling", "r_sleeping"}
            /\ (Done(r) /\ DeclaresAudio(r)) => req[r].resp.status # 200

\* The causes the specification calls client-side; the size is known to the
\* handler once the body has been read.
ClientCaused(r) ==
    \/ ~DeclaresAudio(r)
    \/ ~IsLocal(req[r].endpoint) /\ req[r].audio_len > 25 * 1024 * 1024
                                 /\ req[r].resp.cause # "read"
    \/ BlankTranscript(r)

\* C10: a request that fails carries one error and no result; its status is
\* 400 for a client-side cause (type, size, empty transcript) and 500 for a
\* provider or infrastructure failure.
C10_ErrorStatus ==
    \A r \in Reqs :
        Done(r) =>
            /\ req[r].resp.status \in {200, 400, 500}
            /\ req[r].resp.status # 200 =>
                  /\ req[r].resp.body = EmptyBody
                  /\ req[r].resp.status = IF ClientCaused(r) THEN 400 ELSE 500

\* The steps a request spends waiting for a provider or sleeping.
InSlowStep(r) ==
    req[r].pc \in {"l_transcribing", "l_analyzing", "r_uploading", "r_submitting",
                   "r_polling", "r_sleeping", "r_analyzing"}
\* r waits to be taken up, or to resume from await file.read()
Waiting(r) == req[r].pc \in {"new", "l_read", "r_read"}
InFlight(r) == req[r].pc \notin {"absent", "new", "done"}

\* C11: while one request is inside a slow step, another request that waits
\* to be taken up or to resume can take its next step.
C11_OthersProgress ==
    \A r1, r2 \in Reqs :
        (r1 # r2 /\ InSlowStep(r1) /\ Waiting(r2)) => ENABLED Step(r2)

\* C16: in the local variant at most one call of model.transcribe is in
\* progress at any time.
C16_OneTranscribe ==
    Cardinality({r \in Reqs : req[r].pc = "l_transcribing"}) <= 1

\* One request is inside model.transcribe while another has staged its file
\* and waits to resume.
C16_Witness ==
    \E r1, r2 \in Reqs :
        r1 # r2 /\ req[r1].pc = "l_transcribing" /\ req[r2].pc = "l_read"

\* C17: in the local variant the temp files of requests in flight are
\* distinct, the file of a request exists from its creation until the request
\* ends, and a file disappears only in the step in which its creator ends.
C17_TempFileOwned ==
    /\ [](\A r \in Reqs :
            (IsLocal(req[r].endpoint) /\ InFlight(r)) =>
                /\ req[r].temp_file # 0
                /\ files[req[r].temp_file] = r
                /\ \A o \in Reqs \ {r} :
                      InFlight(o) => req[o].temp_file # req[r].temp_file)
    /\ [][\A n \in FileNames :
            (files[n] # 0 /\ files'[n] # files[n]) =>
                /\ files'[n] = 0
                /\ req[files[n]].temp_file = n
                /\ req[files[n]].pc # "done"
                /\ req'[files[n]].pc = "done"]_vars

\* One request has ended and removed its file while the file of another,
\* still waiting to resume, exists.
C17_Witness ==
    \E r1, r2 \in Reqs :
        /\ r1 # r2
        /\ Done(r1) /\ req[r1].temp_file # 0 /\ files[req[r1].temp_file] = 0
        /\ req[r2].pc = "l_read" /\ files[req[r2].temp_file] = r2

\* The answer of a request whose upload was refused.
UploadFailed(r) ==
    Done(r) /\ req[r].resp = Error(500, "Failed to upload audio to AssemblyAI.", "")
\* ceil(len / 5,242,880)
ChunkCount(len) == (len + 5242879) \div 5242880

\* C12: the chunks sent are consecutive pieces of the audio from its start,
\* each non-empty and at most 5,242,880 bytes, each but the one reaching the
\* end exactly 5,242,880 bytes; a chunk is sent only after the one before it
\* was answered 200; once the upload is over they make up the whole audio in
\* ceil(len / 5,242,880) chunks; an answer other than 200 is the last, and
\* the request ends with the upload-failed 500 without sending more.
C12_UploadChunks ==
    \A r \in Reqs :
        LET u == req[r].uploads
            a == req[r].upload_answers
            len == req[r].audio_len
        IN  /\ \A i \in 1 .. Len(u) :
                  /\ u[i][1] = IF i = 1 THEN 0 ELSE u[i - 1][2]
                  /\ u[i][2] - u[i][1] > 0
                  /\ u[i][2] - u[i][1] <= 5242880
                  /\ u[i][2] <= len
                  /\ u[i][2] < len => u[i][2] - u[i][1] = 5242880
            /\ Len(a) <= Len(u) /\ Len(u) <= Len(a) + 1
            /\ Len(u) = Len(a) + 1 => req[r].pc = "r_uploading"
            /\ \A i \in 1 .. Len(a) :
                  a[i] # 200 => (i = Len(a) /\ Len(u) = i /\ UploadFailed(r))
            /\ UploadFailed(r) => (a # <<>> /\ a[Len(a)] # 200)
            /\ req[r].submits > 0 =>
                  /\ Len(u) = ChunkCount(len)
                  /\ u[Len(u)][2] = len
                  /\ \A i \in 1 .. Len(a) : a[i] = 200

\* The second chunk of a two-chunk audio was refused: nothing more was sent.
C12_Witness ==
    \E r \in Reqs :
        /\ UploadFailed(r)
        /\ req[r].audio_len = 5242880 + 1
        /\ req[r].uploads = <<<<0, 5242880>>, <<5242880, 5242881>>>>
        /\ req[r].upload_answers[1] = 200

\* C13: the steps of a request follow one another and none starts after an
\* earlier one failed: the job is submitted only after every chunk was sent
\* and answered 200, polled only after it was submitted and accepted, the
\* analysis is called only with a transcript in hand, and a request that has
\* ended takes no further step.
C13_Sequential ==
    /\ [](\A r \in Reqs :
            /\ req[r].submits > 0 =>
                  /\ Len(req[r].uploads) = ChunkCount(req[r].audio_len)
                  /\ Len(req[r].upload_answers) = ChunkCount(req[r].audio_len)
                  /\ \A i \in 1 .. Len(req[r].upload_answers) : req[r].upload_answers[i] = 200
            /\ req[r].pc = "r_uploading" => (req[r].submits = 0 /\ ~req[r].polled)
            /\ req[r].pc = "r_submitting" => ~req[r].polled
            /\ req[r].polled => req[r].submits = 1
            /\ InPoll(r) => req[r].analysis_calls = 0
            /\ req[r].analysis_calls > 0 =>
                  /\ req[r].transcript # <<>>
                  /\ IsLocal(req[r].endpoint) => req[r].transcribe_calls = 1
                  /\ ~IsLocal(req[r].endpoint) =>
                        /\ req[r].last_response.status = "completed"
                        /\ req[r].transcript = <<req[r].last_response.text>>
            /\ UploadFailed(r) =>
                  (req[r].submits = 0 /\ ~req[r].polled /\ req[r].analysis_calls = 0)
            /\ (Done(r) /\ req[r].resp.detail = "Failed to start transcription.") =>
                  (~req[r].polled /\ req[r].analysis_calls = 0)
            /\ (Done(r) /\ req[r].resp.detail \in {"Transcription failed: ",
                                                    "Transcription timed out."}) =>
                  req[r].analysis_calls = 0
            /\ (Done(r) /\ req[r].resp.cause = "transcribe") => req[r].analysis_calls = 0
            /\ (Done(r) /\ req[r].resp.status = 200 /\ IsAnalyze(r)) =>
                  req[r].analysis_reply # <<>>)
    /\ [][\A r \in Reqs : Done(r) => req'[r] = req[r]]_vars

\* A remote request has gone through upload, submit, poll and analysis.
C13_Witness ==
    \E r \in Reqs :
        /\ req[r].endpoint = "remote_analyze" /\ Done(r) /\ req[r].resp.status = 200
        /\ Len(req[r].uploads) = 2 /\ req[r].submits = 1 /\ req[r].polled
        /\ req[r].analysis_calls = 1

\* C14: zero-length audio sent to the remote variant leads to no upload, no
\* submit and no poll request, and the request ends with a 500 that the
\* pipeline raises itself, never with a success.
C14_EmptyAudioFails ==
    \A r \in Reqs :
        (~IsLocal(req[r].endpoint) /\ DeclaresAudio(r) /\ req[r].audio_len = 0) =>
            /\ req[r].uploads = <<>> /\ req[r].submits = 0 /\ ~req[r].polled
            /\ (Done(r) /\ req[r].resp.cause # "read") =>
                  /\ req[r].resp.status = 500
                  /\ req[r].resp.detail \in
                        { "Failed to upload audio to AssemblyAI.",
                          "Failed to start transcription.",
                          "Transcription failed: ",
                          "Transcription timed out." }

\* C15: outside the poll loop nothing is sent twice: no chunk is POSTed
\* twice, the job is submitted at most once, model.transcribe and the
\* analysis provider are called at most once, and a refused call ends the
\* request.
C15_NoRetries ==
    /\ [](\A r \in Reqs :
            /\ \A i, j \in 1 .. Len(req[r].uploads) :
                  i # j => req[r].uploads[i] # req[r].uploads[j]
            /\ \A i \in 1 .. Len(req[r].upload_answers) :
                  req[r].upload_answers[i] # 200 => Done(r)
            /\ req[r].submits <= 1
            /\ req[r].transcribe_calls <= 1
            /\ req[r].analysis_calls <= 1
            /\ Done(r) => req[r].resp.status \in {200, 400, 500})
    /\ [][\A r \in Reqs :
            /\ Done(r) => req'[r] = req[r]
            /\ Len(req'[r].uploads) <= Len(req[r].uploads) + 1
            /\ req'[r].submits <= req[r].submits + 1
            /\ (req'[r].submits > req[r].submits) => req[r].pc = "r_uploading"
            /\ (req'[r].analysis_calls > req[r].analysis_calls) =>
                  req[r].pc \in {"l_transcribing", "r_polling"}
            /\ (req'[r].transcribe_calls > req[r].transcribe_calls) =>
                  req[r].pc = "l_read"]_vars

\* An upload was refused and the request ended at once, with one POST made.
C15_Witness ==
    \E r \in Reqs :
        /\ UploadFailed(r)
        /\ Len(req[r].uploads) = 1 /\ req[r].upload_answers = <<500>>

\* C18: the upload the submitted audio_url names holds the whole audio.
C18_UrlNamesWholeAudio ==
    \A r \in Reqs :
        req[r].submits > 0 => req[r].audio_url = <<0, req[r].audio_len>>

====
